---- MODULE Spec2Model ----
(***************************************************************************)
(* django-lifecycle: LifecycleModelMixin (snapshot, diff, condition        *)
(* evaluation, save/delete dispatch) and the @hook decorator, run on       *)
(* model classes of the test application.                                  *)
(*                                                                         *)
(* Python values are strings: None is "None", True is "True", False is     *)
(* "False".  A condition argument of a spec (was, is_now, is_not, was_not, *)
(* changes_to) is a tagged record: a literal, a callable (described by the *)
(* set of values on which it returns a truthy result) or the NotSet class. *)
(***************************************************************************)
EXTENDS Naturals, Sequences, FiniteSets, TLC

VARIABLES
    cls,        \* the model class of the instance
    hooked,     \* cls._potentially_hooked_methods (cached per class)
    attrs,      \* the instance's field attributes (its __dict__)
    cache,      \* the cached related Organization of the instance
    initial,    \* self._initial_state
    adding,     \* self._state.adding
    stored,     \* the stored record of the instance: <<>> or <<row>>
    org,        \* the stored name of the Organization row
    trace,      \* what the last operation did, in order
    outcome,    \* how the last operation ended: "ok" or the exception raised
    lastOp,     \* the last operation of the caller
    ops,        \* number of caller operations so far
    origin,     \* history: the instance was "constructed" by the caller or "loaded"
    completed,  \* history: number of save calls that returned without error
    written,    \* history: super().save was invoked on the instance
    call,       \* the arguments of a hook(...) call made while a class is defined
    result      \* what that call gave: a decorator or the exception raised

vars ==
    <<cls, hooked, attrs, cache, initial, adding, stored, org, trace, outcome, lastOp, ops,
      origin, completed, written, call, result>>

\* Number of caller operations explored in one behaviour.
MaxOps == 4

None == "None"
True == "True"
False == "False"
NoErr == ""
NoCache == "<not cached>"

(***************************************************************************)
(* hooks.py event names (imported by mixins.py).                           *)
(***************************************************************************)
BEFORE_CREATE == "before_create"
BEFORE_UPDATE == "before_update"
BEFORE_SAVE == "before_save"
BEFORE_DELETE == "before_delete"
AFTER_CREATE == "after_create"
AFTER_UPDATE == "after_update"
AFTER_SAVE == "after_save"
AFTER_DELETE == "after_delete"

VALID_HOOKS ==
    {BEFORE_CREATE, BEFORE_UPDATE, BEFORE_SAVE, BEFORE_DELETE,
     AFTER_CREATE, AFTER_UPDATE, AFTER_SAVE, AFTER_DELETE}

BeforeEvents == {BEFORE_CREATE, BEFORE_UPDATE, BEFORE_SAVE, BEFORE_DELETE}
AfterEvents == {AFTER_CREATE, AFTER_UPDATE, AFTER_SAVE, AFTER_DELETE}

(***************************************************************************)
(* Condition arguments.                                                    *)
(***************************************************************************)
Lit(v) == [tag |-> "lit", val |-> v, acc |-> {}]
Pred(S) == [tag |-> "pred", val |-> "", acc |-> S]
NotSet == [tag |-> "notset", val |-> "", acc |-> {}]

\* Python's == between a condition argument and a field value: a callable
\* and the NotSet class are equal to no field value.
PyEq(c, v) == c.tag = "lit" /\ c.val = v

(***************************************************************************)
(* HookSpec and hook(): the defaults of the decorator's parameters.        *)
(***************************************************************************)
hook(hook_name) ==
    [hook_name |-> hook_name, when |-> None, when_any |-> <<>>,
     was |-> Lit("*"), is_now |-> Lit("*"), has_changed |-> None,
     is_not |-> NotSet, was_not |-> NotSet, changes_to |-> NotSet]

(***************************************************************************)
(* The model classes.  Fields of UserAccount kept in the model, and the    *)
(* values a caller assigns to them.                                        *)
(***************************************************************************)
Fields ==
    {"email", "joined_at", "has_trial", "first_name", "last_name", "status",
     "organization_id"}

Assignable ==
    [email |-> {None, "Foo"},
     has_trial |-> {False, True},
     first_name |-> {"Homer", "Ned"},
     last_name |-> {"Simpson", "Flanders"},
     status |-> {"active", "banned", "disabled"}]

OrgNames == {"Hogwarts", "Hogwarts Online"}

\* str.lower() on the e-mail values of the model.
Lower(v) == IF v = "Foo" THEN "foo" ELSE v

\* "." in field_name, and field_name.split(".")
IsDotted(field_name) == field_name \in {"organization.name", "organization.motto"}
PathTail(field_name) == IF field_name = "organization.name" THEN "name" ELSE "motto"

Classes == {"UserAccount", "UserAccountMail", "Probe"}

(***************************************************************************)
(* The hooked methods of a class in the order of their declaration; each   *)
(* with its @hook decorators from top to bottom.                           *)
(***************************************************************************)
Declared(c) ==
    CASE c = "UserAccount" ->
        << [name |-> "lowercase_email",
            decorators |-> << [hook(BEFORE_SAVE) EXCEPT !.when = "email", !.is_not = Lit(None)] >>],
           [name |-> "timestamp_joined_at",
            decorators |-> << hook(BEFORE_CREATE) >>],
           [name |-> "ensure_trial_not_active",
            decorators |-> << [hook(BEFORE_DELETE) EXCEPT !.when = "has_trial", !.was = Lit("*"),
                                                          !.is_now = Lit(True)] >>],
           [name |-> "ensure_last_name_is_not_changed_to_flanders",
            decorators |-> << [hook(BEFORE_UPDATE) EXCEPT !.when = "last_name",
                                                          !.changes_to = Lit("Flanders")] >>],
           [name |-> "notify_org_name_change",
            decorators |-> << [hook(AFTER_UPDATE) EXCEPT !.when = "organization.name",
                                                         !.has_changed = True] >>],
           [name |-> "notify_user_they_were_moved_to_online_school",
            decorators |-> << [hook(AFTER_UPDATE) EXCEPT !.when = "organization.name",
                                                         !.was = Lit("Hogwarts"),
                                                         !.is_now = Lit("Hogwarts Online")] >>] >>
      [] c = "UserAccountMail" ->
        << [name |-> "do_after_create_jobs",
            decorators |-> << hook(AFTER_CREATE) >>],
           [name |-> "email_deleted_user",
            decorators |-> << hook(AFTER_DELETE) >>],
           [name |-> "email_user_about_name_change",
            decorators |-> << [hook(AFTER_UPDATE) EXCEPT !.when_any = <<"first_name", "last_name">>,
                                                         !.has_changed = True] >>],
           [name |-> "email_deactivated_user",
            decorators |-> << [hook(AFTER_UPDATE) EXCEPT !.when = "status", !.was = Lit("active"),
                                                         !.is_now = Pred({"banned", "disabled"})] >>],
           [name |-> "email_activated_user",
            decorators |-> << [hook(AFTER_UPDATE) EXCEPT !.when = "status",
                                                         !.was = Pred({"banned", "disabled"}),
                                                         !.is_now = Lit("active")] >>],
           [name |-> "email_about_young_account_deletion",
            decorators |-> << [hook(AFTER_DELETE) EXCEPT !.when = "joined_at",
                                                         !.is_not = Pred({"now"})] >>] >>
      [] OTHER ->
        << [name |-> "audit_names",
            decorators |-> << [hook(AFTER_UPDATE) EXCEPT !.when = "first_name", !.has_changed = True],
                              [hook(AFTER_UPDATE) EXCEPT !.when = "last_name", !.has_changed = True] >>],
           [name |-> "track_status",
            decorators |-> << hook(BEFORE_DELETE),
                              [hook(AFTER_SAVE) EXCEPT !.when = "status", !.has_changed = True] >>],
           [name |-> "reject_trial",
            decorators |-> << [hook(AFTER_SAVE) EXCEPT !.when = "has_trial", !.is_now = Lit(True)] >>],
           [name |-> "notify_org_or_status",
            decorators |-> << [hook(AFTER_UPDATE) EXCEPT !.when_any = <<"organization.name", "status">>,
                                                         !.has_changed = True] >>],
           [name |-> "refuse_banned_delete",
            decorators |-> << [hook(AFTER_DELETE) EXCEPT !.when = "status", !.is_now = Lit("banned")] >>] >>

(***************************************************************************)
(* HookedMethod.__init__ and hook(): decorators are applied from the       *)
(* bottom one up; each HookedMethod takes over the list of the method it   *)
(* wraps and appends its own spec.                                         *)
(***************************************************************************)
HookedMethod_init(f_hooked, hook_spec) == Append(f_hooked, hook_spec)

RECURSIVE ApplyDecorators(_, _)
ApplyDecorators(decorators, k) ==
    \* the list _hooked after the decorators k..Len(decorators) were applied
    IF k > Len(decorators) THEN <<>>
    ELSE HookedMethod_init(ApplyDecorators(decorators, k + 1), decorators[k])

MethodNames(c) == {Declared(c)[i].name : i \in 1..Len(Declared(c))}

DeclIndex(c, name) == CHOOSE i \in 1..Len(Declared(c)) : Declared(c)[i].name = name

\* HookedMethod.specs of every method (a property of the class definition).
SpecsOf ==
    [c \in Classes |->
        [name \in MethodNames(c) |->
            ApplyDecorators(Declared(c)[DeclIndex(c, name)].decorators, 1)]]

\* method.specs, for a method of the class of self.
specs(s, name) == s.specs[name]

(***************************************************************************)
(* _potentially_hooked_methods: the names are taken from a set, so they    *)
(* come in an order that the hash seed of the process fixes; `names` is    *)
(* that order.  A method is appended once for each of its specs.           *)
(***************************************************************************)
RECURSIVE CollectSpecs(_, _, _, _)
CollectSpecs(c, name, hook_name, k) ==
    IF k > Len(SpecsOf[c][name]) THEN <<>>
    ELSE (IF SpecsOf[c][name][k].hook_name = hook_name THEN <<name>> ELSE <<>>)
         \o CollectSpecs(c, name, hook_name, k + 1)

RECURSIVE CollectNames(_, _, _, _)
CollectNames(c, names, hook_name, i) ==
    IF i > Len(names) THEN <<>>
    ELSE CollectSpecs(c, names[i], hook_name, 1) \o CollectNames(c, names, hook_name, i + 1)

potentially_hooked_methods(c, names) ==
    [hook_name \in VALID_HOOKS |-> CollectNames(c, names, hook_name, 1)]

\* The orders in which a set of names can be iterated.
RECURSIVE Orders(_)
Orders(S) ==
    IF S = {} THEN {<<>>}
    ELSE UNION {{<<x>> \o p : p \in Orders(S \ {x})} : x \in S}

\* The values _potentially_hooked_methods can take for each class.
HookedMethodsOf ==
    [c \in Classes |->
        {potentially_hooked_methods(c, names) : names \in Orders(MethodNames(c))}]

\* The methods in the order of their declaration in the class.
DeclarationOrder(c) == [i \in 1..Len(Declared(c)) |-> Declared(c)[i].name]

(***************************************************************************)
(* _watched_fk_model_fields and _watched_fk_models.                        *)
(***************************************************************************)
WatchedOf ==
    [c \in Classes |->
        UNION {{SpecsOf[c][name][k].when :
                    k \in {j \in DOMAIN SpecsOf[c][name] :
                              /\ SpecsOf[c][name][j].when # None
                              /\ IsDotted(SpecsOf[c][name][j].when)}} :
               name \in MethodNames(c)}]

\* The cached class property, as self reads it.
watched_fk_model_fields(s) == s.watched

watched_fk_models(s) ==
    {"organization" : w \in watched_fk_model_fields(s)}

(***************************************************************************)
(* The instance `self` is a record of the variables, with `err` the        *)
(* exception that is propagating (NoErr: none).                            *)
(***************************************************************************)
\* An exception that a getattr raises, as the outcome of the getattr.
Exc(exception) == "<" \o exception \o ">"

\* The storage state of an Organization row that was deleted.
Deleted == "<deleted>"

\* getattr(self, "organization"): the cached related object, None for an
\* unset relation, else the row read from storage, Organization.DoesNotExist
\* if there is no row.  The related object is represented by the value of
\* its `name`.
getattr_organization(s) ==
    IF s.cache # NoCache THEN s.cache
    ELSE IF s.attrs["organization_id"] = None THEN None
    ELSE IF s.org = Deleted THEN Exc("DoesNotExist")
    ELSE s.org

\* getattr(related, name): None has no attribute, an Organization has `name`.
getattr_of_related(related, name) ==
    IF related = None THEN Exc("AttributeError")
    ELSE IF name = "name" THEN related
    ELSE Exc("AttributeError")

\* getitem with the try/except left out.
getitem_without_try(outcome_of_getattr) == outcome_of_getattr

\* getitem: except (AttributeError, ObjectDoesNotExist): return None
getitem(outcome_of_getattr) ==
    IF outcome_of_getattr \in {Exc("AttributeError"), Exc("DoesNotExist")} THEN None
    ELSE outcome_of_getattr

\* getitem(self, "organization")
related_object(s) == getitem(getattr_organization(s))

\* The instance after getattr(self, "organization"): a related object that
\* was read is cached.
fetch_related(s) ==
    IF getattr_organization(s) = Exc("DoesNotExist") THEN s
    ELSE [s EXCEPT !.cache = getattr_organization(s)]

\* getitem(related, name)
related_attribute(related, name) == getitem(getattr_of_related(related, name))

sanitize_field_name(field_name) ==
    IF field_name = "organization" THEN "organization_id" ELSE field_name

current_value(s, field_name) ==
    IF IsDotted(field_name)
    THEN related_attribute(related_object(s), PathTail(field_name))
    ELSE s.attrs[sanitize_field_name(field_name)]

snapshot_state(s) ==
    [k \in Fields \cup watched_fk_model_fields(s) |->
        IF k \in watched_fk_model_fields(s) THEN current_value(s, k) ELSE s.attrs[k]]

\* The instance after _snapshot_state(): the watched relation was read.
after_snapshot_state(s) ==
    IF watched_fk_model_fields(s) # {} THEN fetch_related(s) ELSE s

\* A diff taken against the stored row instead of the snapshot.
diff_with_stored_row(s) ==
    LET current == snapshot_state(s)
    IN  {k \in DOMAIN s.initial :
            /\ s.stored # <<>>
            /\ k \in DOMAIN s.stored[1]
            /\ s.stored[1][k] # current[k]}

\* The keys of _diff_with_initial.
diff_with_initial(s) ==
    LET current == snapshot_state(s)
    IN  {k \in DOMAIN s.initial : k \in DOMAIN current /\ s.initial[k] # current[k]}

initial_value(s, field_name) ==
    IF sanitize_field_name(field_name) \in DOMAIN s.initial
    THEN s.initial[sanitize_field_name(field_name)]
    ELSE None

has_changed(s, field_name) ==
    sanitize_field_name(field_name) \in diff_with_initial(s)

clear_watched_fk_model_cache(s) ==
    IF "organization" \in watched_fk_models(s) /\ s.cache # NoCache
    THEN [s EXCEPT !.cache = NoCache]
    ELSE s

(***************************************************************************)
(* The condition checks.                                                   *)
(***************************************************************************)
check_has_changed(s, field_name, spec) ==
    \/ spec.has_changed = None
    \/ (spec.has_changed = True) = has_changed(s, field_name)

check_is_now_condition(s, field_name, spec) ==
    PyEq(spec.is_now, current_value(s, field_name)) \/ PyEq(spec.is_now, "*")

\* The is_not check calling a callable is_not with the current value.
check_is_not_condition_calls_predicate(s, field_name, spec) ==
    \/ spec.is_not.tag = "notset"
    \/ spec.is_not.tag = "lit" /\ spec.is_not.val # current_value(s, field_name)
    \/ spec.is_not.tag = "pred" /\ current_value(s, field_name) \notin spec.is_not.acc

check_is_not_condition(s, field_name, spec) ==
    spec.is_not.tag = "notset" \/ ~PyEq(spec.is_not, current_value(s, field_name))

check_was_condition(s, field_name, spec) ==
    PyEq(spec.was, initial_value(s, field_name)) \/ PyEq(spec.was, "*")

check_was_not_condition(s, field_name, spec) ==
    spec.was_not.tag = "notset" \/ ~PyEq(spec.was_not, initial_value(s, field_name))

\* The transition check without its look at the initial value.
check_changes_to_condition_current_only(s, field_name, spec) ==
    \/ spec.changes_to.tag = "notset"
    \/ PyEq(spec.changes_to, current_value(s, field_name))

check_changes_to_condition(s, field_name, spec) ==
    \/ spec.changes_to.tag = "notset"
    \/ /\ ~PyEq(spec.changes_to, initial_value(s, field_name))
       /\ PyEq(spec.changes_to, current_value(s, field_name))

check_callback_conditions(s, field_name, spec) ==
    /\ check_has_changed(s, field_name, spec)
    /\ check_is_now_condition(s, field_name, spec)
    /\ check_was_condition(s, field_name, spec)
    /\ check_was_not_condition(s, field_name, spec)
    /\ check_is_not_condition(s, field_name, spec)
    /\ check_changes_to_condition(s, field_name, spec)

\* The instance after _check_callback_conditions: has_changed() takes a
\* snapshot, and the checks after it read the current value of the field.
after_callback_conditions(s, field_name, spec) ==
    LET s1 == IF spec.has_changed # None THEN after_snapshot_state(s) ELSE s
    IN  IF check_has_changed(s, field_name, spec) /\ IsDotted(field_name)
        THEN fetch_related(s1)
        ELSE s1

(***************************************************************************)
(* What an operation did is recorded in `trace`: the events emitted (the   *)
(* calls of _run_hooked_methods), the hooked methods invoked (with the     *)
(* position of the spec in method.specs and the field that was checked),   *)
(* the delegate calls (super().save, super().delete) and the exception a   *)
(* method body raised.                                                     *)
(***************************************************************************)
Entry(kind, name, k, field_name) ==
    [kind |-> kind, name |-> name, spec |-> k, field |-> field_name]

Raise(s, exception) ==
    [s EXCEPT !.err = exception, !.trace = Append(@, Entry("raise", exception, 0, ""))]

\* The bodies of the hooked methods.
Body(s, name) ==
    CASE name = "lowercase_email" ->
            [s EXCEPT !.attrs["email"] = Lower(@)]
      [] name = "timestamp_joined_at" ->
            [s EXCEPT !.attrs["joined_at"] = "now"]
      [] name = "ensure_trial_not_active" ->
            Raise(s, "CannotDeleteActiveTrial")
      [] name = "ensure_last_name_is_not_changed_to_flanders" ->
            Raise(s, "CannotRename")
      [] name \in {"notify_org_name_change", "notify_user_they_were_moved_to_online_school"} ->
            \* the mail text reads self.organization.name
            IF getattr_organization(s) = Exc("DoesNotExist") THEN Raise(s, "DoesNotExist")
            ELSE IF getattr_organization(s) = None THEN Raise(fetch_related(s), "AttributeError")
            ELSE fetch_related(s)
      [] name = "reject_trial" ->
            Raise(s, "TrialRejected")
      [] name = "refuse_banned_delete" ->
            Raise(s, "DeleteRefused")
      [] OTHER -> s

\* fired.append(method.__name__); method(self)
Invoke(s, name, k, field_name) ==
    Body([s EXCEPT !.trace = Append(@, Entry("call", name, k, field_name))], name)

\* HookedMethod.__get__(instance, owner): the HookedMethod for an access from
\* the class (instance is None), else self._f, the function that was
\* decorated (wraps copies _f of a wrapped HookedMethod to the one around it).
HookedMethod_get(instance) ==
    IF instance = None THEN "HookedMethod" ELSE "function"

\* self._f(*args): the function has the one parameter `self`; with no
\* argument for it the call raises TypeError and the body is not entered.
call_f(s, name, args) ==
    IF Len(args) = 1
    THEN Body([s EXCEPT !.trace = Append(@, Entry("call", name, 0, ""))], name)
    ELSE Raise(s, "TypeError")

\* HookedMethod.__call__(*args, **kwargs)
HookedMethod_call(s, name, args) == call_f(s, name, args)

\* instance.name(): the attribute found through __get__ is called with no
\* arguments; a function is called as it is, a HookedMethod passes the
\* arguments on to _f.  Neither is bound to the instance.
direct_call(s, name) ==
    LET looked_up == [s EXCEPT !.trace = Append(@, Entry("direct", name, 0, ""))]
    IN  IF HookedMethod_get("instance") = "function"
        THEN call_f(looked_up, name, <<>>)
        ELSE HookedMethod_call(looked_up, name, <<>>)

\* The loop over when_any left after the first field that fires.
RECURSIVE RunWhenAny_first_match_only(_, _, _, _)
RunWhenAny_first_match_only(s, name, k, j) ==
    LET spec == specs(s, name)[k]
    IN  IF s.err # NoErr \/ j > Len(spec.when_any) THEN s
        ELSE LET field_name == spec.when_any[j]
                 checked == after_callback_conditions(s, field_name, spec)
             IN  IF check_callback_conditions(s, field_name, spec)
                 THEN Invoke(checked, name, k, field_name)
                 ELSE RunWhenAny_first_match_only(checked, name, k, j + 1)

RECURSIVE RunWhenAny(_, _, _, _)
RunWhenAny(s, name, k, j) ==
    \* for field_name in when_any_field, from its j-th element on
    LET spec == specs(s, name)[k]
    IN  IF s.err # NoErr \/ j > Len(spec.when_any) THEN s
        ELSE LET field_name == spec.when_any[j]
                 checked == after_callback_conditions(s, field_name, spec)
             IN  RunWhenAny(IF check_callback_conditions(s, field_name, spec)
                            THEN Invoke(checked, name, k, field_name)
                            ELSE checked,
                            name, k, j + 1)

RECURSIVE RunSpecs(_, _, _)
RunSpecs(s, name, k) ==
    \* for spec in method.specs, from the k-th spec on
    IF s.err # NoErr \/ k > Len(specs(s, name)) THEN s
    ELSE LET spec == specs(s, name)[k]
             checked == after_callback_conditions(s, spec.when, spec)
         IN  RunSpecs(IF spec.when # None /\ spec.when # ""
                      THEN IF check_callback_conditions(s, spec.when, spec)
                           THEN Invoke(checked, name, k, spec.when)
                           ELSE checked
                      ELSE IF spec.when_any # <<>>
                      THEN RunWhenAny(s, name, k, 1)
                      ELSE Invoke(s, name, k, ""),
                      name, k + 1)

RECURSIVE RunMethods(_, _, _)
RunMethods(s, methods, i) ==
    \* for method in self._potentially_hooked_methods.get(hook_name, [])
    IF s.err # NoErr \/ i > Len(methods) THEN s
    ELSE RunMethods(RunSpecs(s, methods[i], 1), methods, i + 1)

\* A statement after one that raised is not reached: the instance is left
\* as the raise left it.
run_hooked_methods(s, hook_name) ==
    IF s.err # NoErr THEN s
    ELSE RunMethods([s EXCEPT !.trace = Append(@, Entry("event", hook_name, 0, ""))],
                    s.hooked[hook_name], 1)

\* super().save(*args, **kwargs): the row is written from the instance.
delegate_save(s) ==
    IF s.err # NoErr THEN s
    ELSE [s EXCEPT !.stored = <<s.attrs>>, !.adding = FALSE,
                   !.trace = Append(@, Entry("delegate", "super().save", 0, ""))]

\* super().delete(*args, **kwargs): the row is removed.
delegate_delete(s) ==
    IF s.err # NoErr THEN s
    ELSE [s EXCEPT !.stored = <<>>,
                   !.trace = Append(@, Entry("delegate", "super().delete", 0, ""))]

\* self._initial_state = self._snapshot_state()
refresh_initial_state(s) ==
    IF s.err # NoErr THEN s
    ELSE [after_snapshot_state(s) EXCEPT !.initial = snapshot_state(s)]

\* is_new read again after super().save() has run.
save_with_hooks_rereads_adding(s) ==
    LET cleared == clear_watched_fk_model_cache(s)
        before == run_hooked_methods(
                      run_hooked_methods(cleared, IF cleared.adding THEN BEFORE_CREATE ELSE BEFORE_UPDATE),
                      BEFORE_SAVE)
        saved == delegate_save(before)
        after == run_hooked_methods(
                     run_hooked_methods(saved, AFTER_SAVE),
                     IF saved.adding THEN AFTER_CREATE ELSE AFTER_UPDATE)
    IN  refresh_initial_state(after)

\* The create and update branches taken the wrong way round.
save_with_hooks_swapped_branches(s) ==
    LET cleared == clear_watched_fk_model_cache(s)
        is_new == ~cleared.adding
        before == run_hooked_methods(
                      run_hooked_methods(cleared, IF is_new THEN BEFORE_CREATE ELSE BEFORE_UPDATE),
                      BEFORE_SAVE)
        saved == delegate_save(before)
        after == run_hooked_methods(
                     run_hooked_methods(saved, AFTER_SAVE),
                     IF is_new THEN AFTER_CREATE ELSE AFTER_UPDATE)
    IN  refresh_initial_state(after)

\* super().save() called after the after-hooks instead of ahead of them.
save_with_hooks_delegate_last(s) ==
    LET cleared == clear_watched_fk_model_cache(s)
        is_new == cleared.adding
        before == run_hooked_methods(
                      run_hooked_methods(cleared, IF is_new THEN BEFORE_CREATE ELSE BEFORE_UPDATE),
                      BEFORE_SAVE)
        after == run_hooked_methods(
                     run_hooked_methods(before, AFTER_SAVE),
                     IF is_new THEN AFTER_CREATE ELSE AFTER_UPDATE)
    IN  refresh_initial_state(delegate_save(after))

\* The before_save hooks run after super().save() has written the row.
save_with_hooks_writes_before_before_save(s) ==
    LET cleared == clear_watched_fk_model_cache(s)
        is_new == cleared.adding
        before == run_hooked_methods(cleared, IF is_new THEN BEFORE_CREATE ELSE BEFORE_UPDATE)
        saved == run_hooked_methods(delegate_save(before), BEFORE_SAVE)
        after == run_hooked_methods(
                     run_hooked_methods(saved, AFTER_SAVE),
                     IF is_new THEN AFTER_CREATE ELSE AFTER_UPDATE)
    IN  refresh_initial_state(after)

\* The snapshot taken in a `finally`: also when a hook has raised.
save_with_hooks_snapshot_in_finally(s) ==
    LET cleared == clear_watched_fk_model_cache(s)
        is_new == cleared.adding
        before == run_hooked_methods(
                      run_hooked_methods(cleared, IF is_new THEN BEFORE_CREATE ELSE BEFORE_UPDATE),
                      BEFORE_SAVE)
        saved == delegate_save(before)
        after == run_hooked_methods(
                     run_hooked_methods(saved, AFTER_SAVE),
                     IF is_new THEN AFTER_CREATE ELSE AFTER_UPDATE)
    IN  [after_snapshot_state(after) EXCEPT !.initial = snapshot_state(after)]

save_with_hooks(s) ==
    LET cleared == clear_watched_fk_model_cache(s)
        is_new == cleared.adding
        before == run_hooked_methods(
                      run_hooked_methods(cleared, IF is_new THEN BEFORE_CREATE ELSE BEFORE_UPDATE),
                      BEFORE_SAVE)
        saved == delegate_save(before)
        after == run_hooked_methods(
                     run_hooked_methods(saved, AFTER_SAVE),
                     IF is_new THEN AFTER_CREATE ELSE AFTER_UPDATE)
    IN  refresh_initial_state(after)

\* skip_hooks is popped from kwargs and not looked at.
save_ignores_skip_hooks(s, skip_hooks) == save_with_hooks(s)

save(s, skip_hooks) ==
    IF skip_hooks THEN delegate_save(s) ELSE save_with_hooks(s)

\* delete() taking a new snapshot as save() does.
delete_refreshes_initial_state(s) ==
    refresh_initial_state(
        run_hooked_methods(delegate_delete(run_hooked_methods(s, BEFORE_DELETE)), AFTER_DELETE))

\* super().delete() called ahead of the before_delete hooks.
delete_delegate_first(s) ==
    run_hooked_methods(run_hooked_methods(delegate_delete(s), BEFORE_DELETE), AFTER_DELETE)

delete(s) ==
    run_hooked_methods(delegate_delete(run_hooked_methods(s, BEFORE_DELETE)), AFTER_DELETE)

(***************************************************************************)
(* hook(...) as it is called while a class body is executed, with          *)
(* arguments of any type.  An argument is described by its Python type     *)
(* and, for a list or tuple, by the types of its items; the event by its   *)
(* name.                                                                   *)
(***************************************************************************)
NoCall == "no call"

Val(type) == [type |-> type, items |-> <<>>]
ListOf(items) == [type |-> "list", items |-> items]
TupleOf(items) == [type |-> "tuple", items |-> items]
isinstance(v, type) == v.type = type
is_None(v) == v.type = "NoneType"

\* _validate_hook_params without the last check (when and when_any both given).
validate_hook_params_without_both_check(spec) ==
    IF spec.hook_name \notin VALID_HOOKS
    THEN "is not a valid hook"
    ELSE IF ~is_None(spec.has_changed) /\ ~isinstance(spec.has_changed, "bool")
    THEN "'has_changed' hook param must be a boolean"
    ELSE IF ~is_None(spec.when) /\ ~isinstance(spec.when, "str")
    THEN "'when' hook param must be a string matching the name of a model field"
    ELSE IF ~is_None(spec.when_any) /\ ~isinstance(spec.when_any, "list")
    THEN "'when_any' hook param must be a list of strings"
    ELSE IF ~is_None(spec.when_any) /\ Len(spec.when_any.items) = 0
    THEN "'when_any' hook param must contain at least one field name"
    ELSE IF ~is_None(spec.when_any)
            /\ \E i \in DOMAIN spec.when_any.items : spec.when_any.items[i] # "str"
    THEN "'when_any' hook param must be a list of strings"
    ELSE NoErr

\* The message of the DjangoLifeCycleException raised, NoErr if none is.
validate_hook_params(spec) ==
    IF spec.hook_name \notin VALID_HOOKS
    THEN "is not a valid hook"
    ELSE IF ~is_None(spec.has_changed) /\ ~isinstance(spec.has_changed, "bool")
    THEN "'has_changed' hook param must be a boolean"
    ELSE IF ~is_None(spec.when) /\ ~isinstance(spec.when, "str")
    THEN "'when' hook param must be a string matching the name of a model field"
    ELSE IF ~is_None(spec.when_any) /\ ~isinstance(spec.when_any, "list")
    THEN "'when_any' hook param must be a list of strings"
    ELSE IF ~is_None(spec.when_any) /\ Len(spec.when_any.items) = 0
    THEN "'when_any' hook param must contain at least one field name"
    ELSE IF ~is_None(spec.when_any)
            /\ \E i \in DOMAIN spec.when_any.items : spec.when_any.items[i] # "str"
    THEN "'when_any' hook param must be a list of strings"
    ELSE IF ~is_None(spec.when) /\ ~is_None(spec.when_any)
    THEN "Can pass either 'when' or 'when_any' but not both"
    ELSE NoErr

\* hook(hook, when, when_any, has_changed): the exception of
\* _validate_hook_params, or else the decorator (the lambda).
hook_call(args) ==
    IF validate_hook_params(args) # NoErr
    THEN "DjangoLifeCycleException: " \o validate_hook_params(args)
    ELSE "decorator"

(***************************************************************************)
(* The state machine: one instance of one class, and its caller.           *)
(***************************************************************************)
Self ==
    [cls |-> cls, hooked |-> hooked, attrs |-> attrs, cache |-> cache,
     initial |-> initial, adding |-> adding, stored |-> stored, org |-> org,
     specs |-> SpecsOf[cls], watched |-> WatchedOf[cls],
     trace |-> <<>>, err |-> NoErr]

Outcome(s) == IF s.err = NoErr THEN "ok" ELSE s.err

\* The field values a test passes to the constructor (stub_data).
StubData(organization_id) ==
    [email |-> None, joined_at |-> None, has_trial |-> False, first_name |-> "Homer",
     last_name |-> "Simpson", status |-> "active", organization_id |-> organization_id]

\* LifecycleModelMixin.__init__ on an instance that is constructed by the
\* caller (fresh: the related object passed in is cached) or loaded from
\* its stored row (the relation is not cached).
Constructed(c, methods, organization_id, fresh) ==
    LET s == [cls |-> c, hooked |-> methods, attrs |-> StubData(organization_id),
              cache |-> IF fresh /\ organization_id # None THEN "Hogwarts" ELSE NoCache,
              initial |-> <<>>, adding |-> fresh,
              stored |-> IF fresh THEN <<>> ELSE <<StubData(organization_id)>>,
              org |-> "Hogwarts", specs |-> SpecsOf[c], watched |-> WatchedOf[c],
              trace |-> <<>>, err |-> NoErr]
    IN  refresh_initial_state(s)

Init ==
    \E c \in Classes : \E methods \in HookedMethodsOf[c] :
    \E organization_id \in {None, "1"}, fresh \in BOOLEAN :
        LET s == Constructed(c, methods, organization_id, fresh)
        IN  /\ cls = s.cls
            /\ hooked = s.hooked
            /\ attrs = s.attrs
            /\ cache = s.cache
            /\ initial = s.initial
            /\ adding = s.adding
            /\ stored = s.stored
            /\ org = s.org
            /\ trace = <<>>
            /\ outcome = "ok"
            /\ lastOp = "init"
            /\ ops = 0
            /\ origin = (IF fresh THEN "constructed" ELSE "loaded")
            /\ completed = 0
            /\ written = FALSE
            /\ call = NoCall
            /\ result = NoCall

Returned(s, op) ==
    /\ attrs' = s.attrs
    /\ cache' = s.cache
    /\ initial' = s.initial
    /\ adding' = s.adding
    /\ stored' = s.stored
    /\ trace' = s.trace
    /\ outcome' = Outcome(s)
    /\ lastOp' = op
    /\ ops' = ops + 1
    /\ completed' = (IF op \in {"save", "save_skip_hooks"} /\ s.err = NoErr
                     THEN completed + 1 ELSE completed)
    /\ written' = (written \/ \E i \in 1..Len(s.trace) : s.trace[i].name = "super().save")
    /\ UNCHANGED <<cls, hooked, org, origin, call, result>>

\* The caller assigns another value to a field of the instance.
SetField ==
    /\ ops < MaxOps
    /\ \E f \in DOMAIN Assignable : \E v \in Assignable[f] :
        /\ v # attrs[f]
        /\ Returned([Self EXCEPT !.attrs[f] = v], "set")

\* The caller renames the related Organization and saves it.
OrgSave ==
    /\ ops < MaxOps
    /\ org \in OrgNames
    /\ \E name \in OrgNames :
        /\ name # org
        /\ org' = name
        /\ trace' = <<>>
        /\ outcome' = "ok"
        /\ lastOp' = "org_save"
        /\ ops' = ops + 1
        /\ UNCHANGED <<cls, hooked, attrs, cache, initial, adding, stored,
                       origin, completed, written, call, result>>

\* The related Organization is deleted; on_delete=SET_NULL clears the
\* foreign key in the stored row of the instance, not in the instance.
OrgDelete ==
    /\ ops < MaxOps
    /\ org \in OrgNames
    /\ org' = Deleted
    /\ stored' = IF stored = <<>> THEN <<>>
                 ELSE <<[stored[1] EXCEPT !["organization_id"] = None]>>
    /\ trace' = <<>>
    /\ outcome' = "ok"
    /\ lastOp' = "org_delete"
    /\ ops' = ops + 1
    /\ UNCHANGED <<cls, hooked, attrs, cache, initial, adding,
                   origin, completed, written, call, result>>

\* The hooked methods that a caller calls on the instance: one with a
\* single decorator, and one with stacked decorators where the class has one.
DirectlyCalled ==
    [c \in Classes |->
        CASE c = "UserAccount" -> {"lowercase_email"}
          [] c = "UserAccountMail" -> {"do_after_create_jobs"}
          [] OTHER -> {"audit_names"}]

\* The caller calls a hooked method on the instance.
DirectCall ==
    /\ ops < MaxOps
    /\ \E name \in DirectlyCalled[cls] :
        Returned(direct_call(Self, name), "call")

Save ==
    /\ ops < MaxOps
    /\ Returned(save(Self, FALSE), "save")

SaveSkipHooks ==
    /\ ops < MaxOps
    /\ Returned(save(Self, TRUE), "save_skip_hooks")

\* The caller deletes an instance that has a stored row.
Delete ==
    /\ ops < MaxOps
    /\ stored # <<>>
    /\ Returned(delete(Self), "delete")

Next == SetField \/ OrgSave \/ OrgDelete \/ DirectCall \/ Save \/ SaveSkipHooks \/ Delete

Spec == Init /\ [][Next]_vars

(***************************************************************************)
(* Class definition: a hook(...) call with arguments from HookCalls is     *)
(* pending, then made.  The instance variables stay as constructed.        *)
(***************************************************************************)
Pending == "pending"

HookCalls ==
    [hook_name : VALID_HOOKS \cup {"after_persist"},
     when : {Val("NoneType"), Val("str"), Val("int")},
     when_any : {Val("NoneType"), Val("dict"), ListOf(<<>>), ListOf(<<"str">>),
                 ListOf(<<"str", "int">>), TupleOf(<<"str">>)},
     has_changed : {Val("NoneType"), Val("bool"), Val("str")}]

InitHook ==
    /\ \E args \in HookCalls : call = args
    /\ result = Pending
    /\ LET s == Constructed("UserAccount", potentially_hooked_methods("UserAccount",
                                 DeclarationOrder("UserAccount")), None, TRUE)
       IN  /\ cls = s.cls
           /\ hooked = s.hooked
           /\ attrs = s.attrs
           /\ cache = s.cache
           /\ initial = s.initial
           /\ adding = s.adding
           /\ stored = s.stored
           /\ org = s.org
    /\ trace = <<>>
    /\ outcome = "ok"
    /\ lastOp = "init"
    /\ ops = 0
    /\ origin = "constructed"
    /\ completed = 0
    /\ written = FALSE

HookCall ==
    /\ result = Pending
    /\ result' = hook_call(call)
    /\ UNCHANGED <<cls, hooked, attrs, cache, initial, adding, stored, org, trace, outcome,
                   lastOp, ops, origin, completed, written, call>>

NextHook == HookCall

SpecHook == InitHook /\ [][NextHook]_vars

(***************************************************************************)
(* Reading the trace of an operation.                                      *)
(***************************************************************************)
IsStep(e) == e.kind \in {"event", "delegate"}

\* The events emitted and the delegate calls made, in order.
Steps(tr) ==
    LET sel == SelectSeq(tr, IsStep)
    IN  [i \in 1..Len(sel) |-> sel[i].name]

Emitted(tr) == {tr[i].name : i \in {j \in 1..Len(tr) : tr[j].kind = "event"}}

Called(tr) == {tr[i].name : i \in {j \in 1..Len(tr) : tr[j].kind = "call"}}

Delegated(tr) == {j \in 1..Len(tr) : tr[j].kind = "delegate"}

IsPrefix(a, b) == Len(a) <= Len(b) /\ a = SubSeq(b, 1, Len(a))

Raised(tr) == Len(tr) > 0 /\ tr[Len(tr)].kind = "raise"

\* The event during which the last entry of the trace was made.
LastEvent(tr) ==
    LET events == {j \in 1..Len(tr) : tr[j].kind = "event"}
    IN  IF events = {} THEN "" ELSE tr[CHOOSE j \in events : \A i \in events : i <= j].name

SaveSteps(is_new) ==
    IF is_new
    THEN <<BEFORE_CREATE, BEFORE_SAVE, "super().save", AFTER_SAVE, AFTER_CREATE>>
    ELSE <<BEFORE_UPDATE, BEFORE_SAVE, "super().save", AFTER_SAVE, AFTER_UPDATE>>

DeleteSteps == <<BEFORE_DELETE, "super().delete", AFTER_DELETE>>

(***************************************************************************)
(* C1.  A save without skip_hooks emits before_X, before_save, the         *)
(* delegate save, after_save, after_X in this order and nothing else,      *)
(* where X is create if the instance was unpersisted (adding) when save    *)
(* was called and update otherwise; a hook that raises cuts the sequence   *)
(* short, a save that returns has emitted all of it.                       *)
(***************************************************************************)
C1_SaveEmitsInOrder ==
    [][lastOp' = "save" =>
          /\ IsPrefix(Steps(trace'), SaveSteps(adding))
          /\ Steps(trace') # <<>>
          /\ outcome' = "ok" => Steps(trace') = SaveSteps(adding)]_vars

\* An update save of an instance that this behaviour created, with hooks run
\* on both.
C1_Witness ==
    /\ cls = "UserAccount"
    /\ origin = "constructed"
    /\ attrs["joined_at"] = "now"
    /\ lastOp = "save"
    /\ outcome = "ok"
    /\ Steps(trace) = SaveSteps(FALSE)
    /\ Called(trace) # {}

(***************************************************************************)
(* C2.  When a hook raises at a before-event of a save or delete, the      *)
(* delegate is not invoked, no after-event is emitted, the caller gets the *)
(* exception the hook raised, and the stored row is what it was before the *)
(* call.                                                                   *)
(***************************************************************************)
C2_BeforeHookRaiseAborts ==
    [][(lastOp' \in {"save", "delete"} /\ Raised(trace') /\ LastEvent(trace') \in BeforeEvents) =>
          /\ Delegated(trace') = {}
          /\ Emitted(trace') \cap AfterEvents = {}
          /\ outcome' = trace'[Len(trace')].name
          /\ stored' = stored
          /\ adding' = adding]_vars

\* test_ensure_trial_not_active_before_delete: the row is still stored.
C2_Witness ==
    /\ lastOp = "delete"
    /\ outcome = "CannotDeleteActiveTrial"
    /\ LastEvent(trace) = BEFORE_DELETE
    /\ stored # <<>>
    /\ stored[1]["has_trial"] = True

(***************************************************************************)
(* C3.  After every save that returns without error, with or without       *)
(* skip_hooks, no field has changed and the initial value of every field   *)
(* is its current value.                                                   *)
(***************************************************************************)
SnapshotIsCurrent(s, names) ==
    \A f \in names : ~has_changed(s, f) /\ initial_value(s, f) = current_value(s, f)

C3_SnapshotFreshAfterEverySave ==
    (lastOp \in {"save", "save_skip_hooks"} /\ outcome = "ok") =>
        SnapshotIsCurrent(Self, Fields \cup {"organization"})

(***************************************************************************)
(* C4.  A save with skip_hooks emits no event and invokes no hook; it      *)
(* invokes the delegate save once, which stores the instance as the caller *)
(* left it.                                                                *)
(***************************************************************************)
C4_SkipHooksOnlyDelegates ==
    [][lastOp' = "save_skip_hooks" =>
          /\ trace' = <<Entry("delegate", "super().save", 0, "")>>
          /\ outcome' = "ok"
          /\ attrs' = attrs
          /\ stored' = <<attrs>>
          /\ initial' = initial]_vars

\* test_skip_hooks: the mixed-case e-mail is stored, lowercase_email did not run.
C4_Witness ==
    /\ cls = "UserAccount"
    /\ lastOp = "save_skip_hooks"
    /\ attrs["email"] = "Foo"
    /\ stored = <<attrs>>
    /\ has_changed(Self, "email")

(***************************************************************************)
(* C5 as claimed.  For an instance constructed by the caller, the first    *)
(* save that returns without error emits before_create and after_create    *)
(* and no update event; a save after it emits before_update and            *)
(* after_update and no create event.  (Only saves without skip_hooks are   *)
(* judged.)                                                                *)
(***************************************************************************)
CreatePair == {BEFORE_CREATE, AFTER_CREATE}
UpdatePair == {BEFORE_UPDATE, AFTER_UPDATE}

C6_DeleteEmitsInOrder ==
    [][lastOp' = "delete" =>
          /\ IsPrefix(Steps(trace'), DeleteSteps)
          /\ Steps(trace') # <<>>
          /\ outcome' = "ok" => Steps(trace') = DeleteSteps
          /\ initial' = initial]_vars

\* test_email_after_delete, on an instance with an unsaved change of a field.
C6_Witness ==
    /\ lastOp = "delete"
    /\ outcome = "ok"
    /\ Steps(trace) = DeleteSteps
    /\ "email_deleted_user" \in Called(trace)
    /\ has_changed(Self, "status")

(***************************************************************************)
(* C7.  When a hook raises at an after-event of a save or delete, the      *)
(* caller gets the exception the hook raised, the delegate was invoked     *)
(* exactly once and its effect stays: after a save the row holds the       *)
(* instance's fields, after a delete there is no row.                      *)
(***************************************************************************)
C7_AfterHookRaiseKeepsWrite ==
    [][(lastOp' \in {"save", "delete"} /\ Raised(trace') /\ LastEvent(trace') \in AfterEvents) =>
          /\ outcome' = trace'[Len(trace')].name
          /\ Cardinality(Delegated(trace')) = 1
          /\ IF lastOp' = "save"
             THEN /\ stored' = <<attrs'>>
                  /\ adding' = FALSE
                  /\ \A f \in Fields \ {"email", "joined_at"} : stored'[1][f] = attrs[f]
             ELSE stored' = <<>>]_vars

\* A create whose after_save hook raised: the row is there.
C7_Witness ==
    /\ lastOp = "save"
    /\ outcome = "TrialRejected"
    /\ LastEvent(trace) = AFTER_SAVE
    /\ BEFORE_CREATE \in Emitted(trace)
    /\ stored = <<attrs>>
    /\ attrs["has_trial"] = True

(***************************************************************************)
(* C8.  Right after construction or load, no field has changed and the     *)
(* initial value of every field is its current value; this includes every  *)
(* dotted relationship path that a spec of the class watches (as `when` or *)
(* in `when_any`).                                                         *)
(***************************************************************************)
\* The dotted paths named by the specs of a class.
WatchedPathsOf ==
    [c \in Classes |->
        {f \in {"organization.name", "organization.motto"} :
            \E name \in MethodNames(c) : \E k \in DOMAIN SpecsOf[c][name] :
                \/ SpecsOf[c][name][k].when = f
                \/ \E j \in DOMAIN SpecsOf[c][name][k].when_any :
                       SpecsOf[c][name][k].when_any[j] = f}]

C8_SnapshotIsCurrentAtConstruction ==
    lastOp = "init" =>
        SnapshotIsCurrent(Self, Fields \cup {"organization"} \cup WatchedPathsOf[cls])

(***************************************************************************)
(* C9.  When is_now (was) of a spec is a one-argument predicate, the       *)
(* is_now (was) check passes exactly when the predicate holds of the       *)
(* field's current value (of its recorded initial value).                  *)
(***************************************************************************)
C9_PredicateConditions ==
    \A name \in MethodNames(cls) : \A k \in DOMAIN specs(Self, name) :
        LET spec == specs(Self, name)[k]
        IN  spec.when # None =>
                /\ spec.is_now.tag = "pred" =>
                      (check_is_now_condition(Self, spec.when, spec)
                          <=> current_value(Self, spec.when) \in spec.is_now.acc)
                /\ spec.was.tag = "pred" =>
                      (check_was_condition(Self, spec.when, spec)
                          <=> initial_value(Self, spec.when) \in spec.was.acc)

(***************************************************************************)
(* C10.  The hooked methods invoked at one event are invoked in the order  *)
(* of their declaration in the class.                                      *)
(***************************************************************************)
\* The position in the trace of the event during which entry i was made.
EventOf(tr, i) ==
    LET events == {j \in 1..i : tr[j].kind = "event"}
    IN  IF events = {} THEN i ELSE CHOOSE j \in events : \A e \in events : e <= j

C10_DeclarationOrder ==
    \A i \in 1..Len(trace) : \A j \in i..Len(trace) :
        (/\ trace[i].kind = "call"
         /\ trace[j].kind = "call"
         /\ EventOf(trace, i) = EventOf(trace, j))
            => DeclIndex(cls, trace[i].name) <= DeclIndex(cls, trace[j].name)

(***************************************************************************)
(* C11.  The specs of a method are its @hook decorators in source order,   *)
(* the topmost first, and they are evaluated in that order: of two calls   *)
(* that one method gets during one event on account of two of its specs,   *)
(* the one for the upper decorator comes first.                            *)
(***************************************************************************)
\* The decorators of a method as written in the source, from the top.
DecoratorsOf(c, name) == Declared(c)[DeclIndex(c, name)].decorators

\* The position from the top of the decorator that gave the k-th spec.
DecoratorIndex(c, name, k) ==
    CHOOSE d \in DOMAIN DecoratorsOf(c, name) : DecoratorsOf(c, name)[d] = SpecsOf[c][name][k]

C11_StackedSpecsTopToBottom ==
    /\ \A name \in MethodNames(cls) : specs(Self, name) = DecoratorsOf(cls, name)
    /\ \A i \in 1..Len(trace) : \A j \in i..Len(trace) :
          (/\ trace[i].kind = "call"
           /\ trace[j].kind = "call"
           /\ trace[i].name = trace[j].name
           /\ EventOf(trace, i) = EventOf(trace, j))
              => DecoratorIndex(cls, trace[i].name, trace[i].spec)
                     <= DecoratorIndex(cls, trace[j].name, trace[j].spec)

(***************************************************************************)
(* C12.  In a save that emits the event of a when_any spec and returns,    *)
(* the method of the spec is invoked on account of this spec once for each *)
(* field listed in when_any for which the conditions of the spec hold, as  *)
(* the instance is when the event is emitted: k times for k fields, zero   *)
(* times for none.                                                         *)
(***************************************************************************)
\* The positions in tr of the calls made on account of the k-th spec of a method.
CallsFor(tr, name, k) ==
    {i \in 1..Len(tr) : tr[i].kind = "call" /\ tr[i].name = name /\ tr[i].spec = k}

\* The fields of when_any that satisfy the conditions of the spec.
Satisfying(s, spec) ==
    {j \in DOMAIN spec.when_any : check_callback_conditions(s, spec.when_any[j], spec)}

C12_WhenAnyFiresPerField ==
    [][(lastOp' = "save" /\ outcome' = "ok") =>
          \A name \in MethodNames(cls) : \A k \in DOMAIN specs(Self, name) :
              LET spec == specs(Self, name)[k]
                  atEvent == [clear_watched_fk_model_cache(Self) EXCEPT !.attrs = attrs']
              IN  (spec.when_any # <<>> /\ spec.hook_name \in Emitted(trace')) =>
                      Cardinality(CallsFor(trace', name, k))
                          = Cardinality(Satisfying(atEvent, spec))]_vars

\* Both names changed: the method was called twice in one after_update.
C12_Witness ==
    /\ cls = "UserAccountMail"
    /\ lastOp = "save"
    /\ outcome = "ok"
    /\ Cardinality(CallsFor(trace, "email_user_about_name_change", 1)) = 2
    /\ \E i, j \in CallsFor(trace, "email_user_about_name_change", 1) :
          trace[i].field = "first_name" /\ trace[j].field = "last_name"

(***************************************************************************)
(* C13.  The changes_to check of a spec with changes_to = T on field f     *)
(* passes exactly when initial_value(f) # T and the current value of f is  *)
(* T, whatever has_changed of the spec is; without changes_to it passes.   *)
(* This holds of the instance on which save is called, and in an update    *)
(* ensure_last_name_is_not_changed_to_flanders is called exactly when      *)
(* last_name was not "Flanders" in the snapshot and is "Flanders" now.     *)
(***************************************************************************)
ChangesTo(s, field_name, T) ==
    initial_value(s, field_name) # T /\ current_value(s, field_name) = T

ChangesToCheckIsTransition ==
    \A f \in DOMAIN Assignable : \A has_changed_arg \in {None, True, False} :
        LET spec == [hook(BEFORE_UPDATE) EXCEPT !.when = f, !.has_changed = has_changed_arg]
        IN  /\ check_changes_to_condition(Self, f, spec)
            /\ \A T \in Assignable[f] :
                  check_changes_to_condition(Self, f, [spec EXCEPT !.changes_to = Lit(T)])
                      <=> ChangesTo(Self, f, T)

C13_ChangesToTransition ==
    [][lastOp' = "save" =>
          /\ ChangesToCheckIsTransition
          /\ (cls = "UserAccount" /\ BEFORE_UPDATE \in Emitted(trace')) =>
                ("ensure_last_name_is_not_changed_to_flanders" \in Called(trace')
                    <=> ChangesTo(Self, "last_name", "Flanders"))]_vars

\* An update of an instance that held "Flanders" in the snapshot already.
C13_Witness ==
    /\ cls = "UserAccount"
    /\ lastOp = "save"
    /\ outcome = "ok"
    /\ BEFORE_UPDATE \in Emitted(trace)
    /\ attrs["last_name"] = "Flanders"
    /\ "ensure_last_name_is_not_changed_to_flanders" \notin Called(trace)

(***************************************************************************)
(* C14.  On the instance an operation is called on, for every field: a     *)
(* literal is_not (was_not) passes exactly when the current (initial)      *)
(* value is unequal to it, and a callable is_not (was_not) passes whatever *)
(* the value is, also when the callable holds of it.  So every delete that *)
(* emits after_delete and returns has called                               *)
(* email_about_young_account_deletion.                                     *)
(***************************************************************************)
\* Callables over the values of a field: true of one value, or of all.
Callables(f) == {Pred({v}) : v \in Assignable[f]} \cup {Pred(Assignable[f])}

ExclusionChecksCompareOnly ==
    \A f \in DOMAIN Assignable :
        LET spec == [hook(AFTER_DELETE) EXCEPT !.when = f]
        IN  /\ \A V \in Assignable[f] :
                  /\ check_is_not_condition(Self, f, [spec EXCEPT !.is_not = Lit(V)])
                        <=> current_value(Self, f) # V
                  /\ check_was_not_condition(Self, f, [spec EXCEPT !.was_not = Lit(V)])
                        <=> initial_value(Self, f) # V
            /\ \A callable \in Callables(f) :
                  /\ check_is_not_condition(Self, f, [spec EXCEPT !.is_not = callable])
                  /\ check_was_not_condition(Self, f, [spec EXCEPT !.was_not = callable])

Given(v) == ~is_None(v)

Invalid(args) ==
    \/ args.hook_name \notin VALID_HOOKS
    \/ Given(args.has_changed) /\ args.has_changed.type # "bool"
    \/ Given(args.when) /\ args.when.type # "str"
    \/ Given(args.when_any) /\ \/ args.when_any.type # "list"
                               \/ args.when_any.items = <<>>
                               \/ \E i \in DOMAIN args.when_any.items : args.when_any.items[i] # "str"
    \/ Given(args.when) /\ Given(args.when_any)

C16_SnapshotHoldsEveryWatchedPath ==
    \A f \in WatchedPathsOf[cls] :
        /\ f \in DOMAIN initial
        /\ has_changed(Self, f) <=> initial_value(Self, f) # current_value(Self, f)

(***************************************************************************)
(* C17.  For every dotted path that a spec with has_changed=True of the    *)
(* class names (as `when` or in `when_any`), and every save without        *)
(* skip_hooks of a loaded instance that emits the event of the spec and    *)
(* returns: if the related row was renamed in storage since the load, the  *)
(* save has called the method for this path and leaves no stale related    *)
(* object cached; if the save follows the load at once, it has not called  *)
(* the method for this path.                                               *)
(***************************************************************************)
\* The dotted paths a spec names.
PathsOf(spec) ==
    {f \in {"organization.name", "organization.motto"} :
        spec.when = f \/ \E j \in DOMAIN spec.when_any : spec.when_any[j] = f}

C17_SaveSeesFreshRelatedValue ==
    [][(origin = "loaded" /\ lastOp' = "save" /\ outcome' = "ok") =>
          \A name \in MethodNames(cls) : \A k \in DOMAIN specs(Self, name) :
              LET spec == specs(Self, name)[k]
                  called(f) == \E i \in CallsFor(trace', name, k) : trace'[i].field = f
              IN  \A f \in PathsOf(spec) :
                      (spec.has_changed = True /\ spec.hook_name \in Emitted(trace')) =>
                          /\ (/\ lastOp = "org_save"
                              /\ ops = 1
                              /\ attrs["organization_id"] # None) => called(f) /\ cache' \in {NoCache, org}
                          /\ lastOp = "init" => ~called(f)]_vars

(***************************************************************************)
(* C18.  In a save of a UserAccount in which super().save ran, the row     *)
(* written and the instance hold what the before-hooks wrote: the email    *)
(* in lower case, and joined_at "now" in a create.  lowercase_email was    *)
(* called exactly when the email was not None.                             *)
(***************************************************************************)
C18_BeforeHookWritesArePersisted ==
    [][(cls = "UserAccount" /\ lastOp' = "save" /\ Delegated(trace') # {}) =>
          /\ Len(stored') = 1
          /\ stored'[1]["email"] = Lower(attrs["email"])
          /\ attrs'["email"] = Lower(attrs["email"])
          /\ adding => stored'[1]["joined_at"] = "now" /\ attrs'["joined_at"] = "now"
          /\ "lowercase_email" \in Called(trace') <=> attrs["email"] # None]_vars

\* test_lowercase_email: "Foo" was saved as "foo".
C18_Witness ==
    /\ cls = "UserAccount"
    /\ lastOp = "save"
    /\ outcome = "ok"
    /\ "lowercase_email" \in Called(trace)
    /\ attrs["email"] = "foo"
    /\ stored = <<attrs>>

(***************************************************************************)
(* C19.  A save without skip_hooks that follows at once on the load of the *)
(* instance or on a save of it that returned (so that no field differs     *)
(* from its value then) makes no call on account of a spec with            *)
(* has_changed=True or with changes_to, and, when it returns, has called   *)
(* every method that has a spec without when / when_any for an event that  *)
(* the save emitted.                                                       *)
(***************************************************************************)
RequiresChange(spec) == spec.has_changed = True \/ spec.changes_to.tag # "notset"

NoSelector(spec) == spec.when = None /\ spec.when_any = <<>>

C19_UnchangedSaveFiresNoChangeHook ==
    [][(/\ lastOp' = "save"
        /\ \/ lastOp = "init" /\ origin = "loaded"
           \/ lastOp \in {"save", "save_skip_hooks"} /\ outcome = "ok") =>
          /\ \A i \in 1..Len(trace') :
                trace'[i].kind = "call" =>
                    ~RequiresChange(specs(Self, trace'[i].name)[trace'[i].spec])
          /\ outcome' = "ok" =>
                \A name \in MethodNames(cls) : \A k \in DOMAIN specs(Self, name) :
                    LET spec == specs(Self, name)[k]
                    IN  (NoSelector(spec) /\ spec.hook_name \in Emitted(trace'))
                            => CallsFor(trace', name, k) # {}]_vars


(***************************************************************************)
(* C20.  Resolving a dotted relationship path on an instance whose         *)
(* relation is unset (organization_id is None), whose related row is       *)
(* missing (the Organization was deleted and is not cached) or whose       *)
(* related object lacks the trailing attribute (motto) yields None, and no *)
(* resolution lets an exception of getattr out: not in the snapshot taken  *)
(* at construction and after a save, not in has_changed, which then only   *)
(* tells whether the snapshot holds another value than None, and not in    *)
(* the checks of a save or delete, where an exception that reaches the     *)
(* caller was raised by the body of a hooked method that was called.       *)
(***************************************************************************)
DottedPaths == {"organization.name", "organization.motto"}

Exceptions == {Exc("AttributeError"), Exc("DoesNotExist")}

Unresolvable(s, field_name) ==
    \/ getattr_organization(s) \in {None, Exc("DoesNotExist")}
    \/ getattr_of_related(getattr_organization(s), PathTail(field_name)) \in Exceptions

RaisedByBody(tr) ==
    \A i \in 1..Len(tr) : tr[i].kind = "raise" => i > 1 /\ tr[i - 1].kind = "call"

C20_DottedPathResolvesToNull ==
    /\ \A f \in DottedPaths :
        /\ current_value(Self, f) \notin Exceptions
        /\ Unresolvable(Self, f) =>
            /\ current_value(Self, f) = None
            /\ has_changed(Self, f) <=> (f \in DOMAIN initial /\ initial[f] # None)
    /\ \A k \in DOMAIN initial : initial[k] \notin Exceptions
    /\ LET current == snapshot_state(Self)
       IN  \A k \in DOMAIN current : current[k] \notin Exceptions
    /\ lastOp \in {"save", "delete"} => RaisedByBody(trace)

\* A save of a UserAccount whose Organization was deleted: the check of
\* has_changed on organization.name resolved the path to None, found it
\* changed from the name in the snapshot and called the method.
C20_Witness ==
    /\ cls = "UserAccount"
    /\ lastOp = "save"
    /\ org = Deleted
    /\ attrs["organization_id"] # None
    /\ cache = NoCache
    /\ initial["organization.name"] \in OrgNames
    /\ current_value(Self, "organization.name") = None
    /\ \E i \in 1..Len(trace) :
        /\ trace[i].kind = "call"
        /\ trace[i].name = "notify_org_name_change"
        /\ trace[i].field = "organization.name"

(***************************************************************************)
(* C21.  A hooked method that the caller calls on the instance runs its    *)
(* body exactly once, whatever its specs say: the call returns without     *)
(* TypeError and the body was entered once, no condition was evaluated     *)
(* (the related object is not fetched), no event is emitted, neither       *)
(* delegate is called, and the snapshot and the stored row are as before.  *)
(***************************************************************************)
BodyRuns(tr) == {i \in 1..Len(tr) : tr[i].kind = "call"}

DirectCallLeavesFrame ==
    /\ Emitted(trace') = {}
    /\ Delegated(trace') = {}
    /\ initial' = initial
    /\ stored' = stored
    /\ adding' = adding

C21_DirectCallRunsBodyOnce ==
    [][lastOp' = "call" =>
        /\ Cardinality(BodyRuns(trace')) = 1
        /\ outcome' # "TypeError"
        /\ DirectCallLeavesFrame]_vars

\* What does hold of a direct call: it raises TypeError before the body is
\* entered, and leaves events, delegates, snapshot and row alone.
DirectCallRaisesTypeError ==
    [][lastOp' = "call" =>
        /\ BodyRuns(trace') = {}
        /\ outcome' = "TypeError"
        /\ attrs' = attrs
        /\ cache' = cache
        /\ DirectCallLeavesFrame]_vars

(***************************************************************************)
(* C22.  During an occurrence of event E in a save or delete, a method is  *)
(* invoked only on account of specs registered for E: every call made      *)
(* while E is dispatched comes from a spec whose hook_name is E.           *)
(***************************************************************************)
C22_OnlySpecsOfTheEvent ==
    lastOp \in {"save", "delete"} =>
        \A i \in 1..Len(trace) :
            trace[i].kind = "call" =>
                specs(Self, trace[i].name)[trace[i].spec].hook_name
                    = trace[EventOf(trace, i)].name

(***************************************************************************)
(* C23.  One occurrence of an event in a save or delete evaluates each     *)
(* spec of a method once: the method is invoked at most once on account    *)
(* of one spec and one watched field, so no two calls made during the same *)
(* occurrence of an event have the same method, spec and field.            *)
(***************************************************************************)
SameCall(a, b) == a.kind = "call" /\ b.kind = "call" /\ a = b

C23_OncePerSpecAndField ==
    lastOp \in {"save", "delete"} =>
        \A i \in 1..Len(trace) : \A j \in 1..Len(trace) :
            (SameCall(trace[i], trace[j]) /\ EventOf(trace, i) = EventOf(trace, j))
                => i = j

(***************************************************************************)
(* C24.  In every reachable state and for every field name f (a field, the *)
(* relation `organization`, a dotted path), has_changed(f) is true exactly *)
(* when the snapshot has an entry for f (under its sanitized name) and the *)
(* current value of f is unequal to that entry.  It is a function of the   *)
(* state: a field set away from its snapshot value and back is unchanged.  *)
(* For a name without entry in the snapshot has_changed is false and       *)
(* initial_value is None.                                                  *)
(***************************************************************************)
FieldNames == Fields \cup {"organization", "organization.name", "organization.motto"}

Recorded(s, field_name) == sanitize_field_name(field_name) \in DOMAIN s.initial

C24_HasChangedIsDiffOfState ==
    LET self == Self
    IN  \A f \in FieldNames :
            /\ has_changed(self, f) <=>
                  /\ Recorded(self, f)
                  /\ current_value(self, f) # initial[sanitize_field_name(f)]
            /\ ~Recorded(self, f) => initial_value(self, f) = None

\* Two assignments on a UserAccountMail, away from the snapshot value
\* and back: every field has its snapshot value again and none reports a
\* change, nor does organization.name, which this class does not watch.
C24_Witness ==
    /\ cls = "UserAccountMail"
    /\ ops = 2
    /\ lastOp = "set"
    /\ \A f \in Fields : attrs[f] = initial[f] /\ ~has_changed(Self, f)
    /\ ~Recorded(Self, "organization.name")
    /\ ~has_changed(Self, "organization.name")
    /\ initial_value(Self, "organization.name") = None

(***************************************************************************)
(* C25.  A save in which a hooked method raises, at a before-event or at   *)
(* an after-event, leaves the snapshot as it was when save was called, and *)
(* nothing of the save runs after the raise: the raise is the last thing   *)
(* the save did, and the events and delegate call made are a prefix of the *)
(* full sequence.  If the raise came after the delegate save, the row is   *)
(* written, and has_changed is still true of every field whose written     *)
(* value differs from the snapshot.                                        *)
(***************************************************************************)
Raises(tr) == {i \in 1..Len(tr) : tr[i].kind = "raise"}

C25_RaisingSaveKeepsSnapshot ==
    [][(lastOp' = "save" /\ outcome' # "ok") =>
          LET after == [Self EXCEPT !.attrs = attrs', !.cache = cache',
                                    !.initial = initial', !.stored = stored',
                                    !.adding = adding']
          IN  /\ initial' = initial
              /\ Raises(trace') = {Len(trace')}
              /\ IsPrefix(Steps(trace'), SaveSteps(adding))
              /\ Delegated(trace') = {} => stored' = stored
              /\ Delegated(trace') # {} =>
                    /\ stored' # <<>>
                    /\ \A f \in Fields :
                          stored'[1][f] # initial[f] => has_changed(after, f)]_vars

\* A Probe whose has_trial was set: reject_trial raised at after_save, the
\* row is written with the trial and has_changed("has_trial") is still true.
C25_Witness ==
    /\ cls = "Probe"
    /\ lastOp = "save"
    /\ outcome = "TrialRejected"
    /\ Delegated(trace) # {}
    /\ stored # <<>>
    /\ stored[1]["has_trial"] = True
    /\ initial["has_trial"] = False
    /\ has_changed(Self, "has_trial")

====
